---- MODULE Spec2Model ----
(***************************************************************************)
(* A model of markle: the hybrid logical clock of src/src/timestamp.rs     *)
(* (Timestamp::send, Timestamp::recv) and the base-3 XOR-hash trie of      *)
(* src/src/trie.rs (Trie::insert, Trie::build, Trie::diff, Trie::prune).   *)
(*                                                                         *)
(* Spec      : one clock driven by arbitrary send/recv calls.              *)
(* SpecNet   : two clocks of two nodes that send to each other.            *)
(* SpecTrie  : two tries (two replicas) driven by insert and diff calls.   *)
(* SpecPrune : one trie driven by insert, prune and diff calls.            *)
(* SpecSym   : SpecTrie with diff called in both directions.               *)
(***************************************************************************)
EXTENDS Integers, Sequences, FiniteSets, TLC

VARIABLES
    clock,      \* the Timestamp the calls mutate (self): millis, counter, node
    prev,       \* history: the clock as it was when the last call was made
    ret,        \* what the last send/recv call returned (Ok or an error)
    lastCall,   \* the last call and its arguments
    returned,   \* history: the timestamps the calls returned with Ok, in call order
    calls,      \* history: the number of calls made so far
    prevRet,    \* history: the kind of result the call before the last returned
    clockB,     \* under SpecNet: the Timestamp of the second node (clock is the
                \* first node's)
    net,        \* under SpecNet: the timestamps sent so far, any of which may be
                \* delivered to either node, in any order and more than once
    trieA,      \* replica A's Trie: node path -> hash (the path <<>> is the root)
    trieB,      \* replica B's Trie
    histA,      \* history: the timestamps inserted into trieA, in call order
    histB,      \* history: the timestamps inserted into trieB, in call order
    diffRet,    \* what trieA.diff(&trieB) returned, if it was called on these tries
    diffRetBA,  \* what trieB.diff(&trieA) returned, if it was called on these tries
    opsA,       \* history: the insert and prune calls made on trieA under SpecPrune
    snapsA,     \* history: snapsA[i] is trieA as it was before the call opsA[i]
    diffWith    \* the trie the last diff was called with: trieB ("other"), trieA
                \* itself ("self"), or trieA as it was two calls ago ("before")

clockVars == <<clock, prev, ret, lastCall, returned, calls, prevRet, clockB, net>>
trieVars == <<trieA, trieB, histA, histB, diffRet, diffRetBA, opsA, snapsA, diffWith>>
vars == <<clock, prev, ret, lastCall, returned, calls, prevRet, clockB, net, trieA, trieB, histA, histB, diffRet,
          diffRetBA, opsA, snapsA, diffWith>>

-----------------------------------------------------------------------------
(* Bounds of the model.                                                    *)

\* millis and phys values are taken next to 0 and next to MAX_DRIFT, each with
\* this many ticks above it
MaxTick == 0
\* the number of send/recv calls of one behaviour
MaxCalls == 3
\* the number of send/recv calls of one behaviour of SpecNet, both nodes together
MaxNetCalls == 4

-----------------------------------------------------------------------------
(* Program constants.                                                      *)

MAX_DRIFT == 60000
\* counter: u16
U16_MAX == 65535

NodeA == "1234123412341234"
NodeB == "4321432143214321"

-----------------------------------------------------------------------------
(* Timestamp (src/src/timestamp.rs).                                       *)

Timestamp_new(millis, counter, node) ==
    [millis |-> millis, counter |-> counter, node |-> node]

set_millis(self, millis) == [self EXCEPT !.millis = millis]

set_counter(self, counter) == [self EXCEPT !.counter = counter]

Max(a, b) == IF a >= b THEN a ELSE b

\* Option<u16>
NoneU16 == [some |-> FALSE]
SomeU16(c) == [some |-> TRUE, val |-> c]

\* u16::wrapping_add(1) in the place of checked_add(1)
wrapping_add_1(c) == SomeU16((c + 1) % (U16_MAX + 1))

\* u16::checked_add(1)
checked_add_1(c) == IF c + 1 > U16_MAX THEN NoneU16 ELSE SomeU16(c + 1)

\* Result<Timestamp, TimestampError>
Ok(ts) == [kind |-> "Ok", ts |-> ts]
ClockDriftError(l, phys, max) ==
    [kind |-> "ClockDriftError", l |-> l, phys |-> phys, max |-> max]
OverflowError == [kind |-> "OverflowError"]
DuplicateNodeError(node) == [kind |-> "DuplicateNodeError", node |-> node]

IsErr(r) == r.kind \in {"ClockDriftError", "OverflowError", "DuplicateNodeError"}

\* send's counter rule adding 1 to the counter also when millis advances
send_counter_always_add(l_old, l_new, c_old) == checked_add_1(c_old)

\* send's counter rule without the reset to 0 when millis advances
send_counter_no_reset(l_old, l_new, c_old) ==
    IF l_old = l_new THEN checked_add_1(c_old) ELSE SomeU16(c_old)

\* The counter rule of Timestamp::send.
send_counter(l_old, l_new, c_old) ==
    IF l_old = l_new THEN checked_add_1(c_old) ELSE SomeU16(0)

\* send's drift test with >= in the place of >
send_drift_ge(l_new, phys) == l_new - phys >= MAX_DRIFT

\* The drift test of Timestamp::send.
send_drift(l_new, phys) == l_new - phys > MAX_DRIFT

\* Timestamp::send: the clock after the call (self) and the value returned (ret).
\* The `?` on checked_add returns OverflowError before the drift test is reached.
send(self, phys) ==
    LET l_old == self.millis
        c_old == self.counter
        l_new == Max(l_old, phys)
        c_new == send_counter(l_old, l_new, c_old)
    IN  IF ~c_new.some
        THEN [self |-> self, ret |-> OverflowError]
        ELSE IF send_drift(l_new, phys)
        THEN [self |-> self, ret |-> ClockDriftError(l_new, phys, MAX_DRIFT)]
        ELSE LET s1 == set_millis(self, l_new)
                 s2 == set_counter(s1, c_new.val)
             IN  [self |-> s2,
                  ret |-> Ok(Timestamp_new(s2.millis, s2.counter, s2.node))]

\* recv's counter rule taking the message's counter when all three millis tie
recv_counter_msg_on_tie(l_new, l_old, c_old, l_msg, c_msg) ==
    IF l_new = l_old /\ l_new = l_msg THEN checked_add_1(c_msg)
    ELSE IF l_new = l_old THEN checked_add_1(c_old)
    ELSE IF l_new = l_msg THEN checked_add_1(c_msg)
    ELSE SomeU16(0)

\* recv's counter rule without its first case, so that a tie of all three
\* millis falls to the case of the local counter
recv_counter_no_tie(l_new, l_old, c_old, l_msg, c_msg) ==
    IF l_new = l_old THEN checked_add_1(c_old)
    ELSE IF l_new = l_msg THEN checked_add_1(c_msg)
    ELSE SomeU16(0)

\* recv's counter rule with a wrapping addition in the case of the message's
\* counter
recv_counter_wrap_msg(l_new, l_old, c_old, l_msg, c_msg) ==
    IF l_new = l_old /\ l_new = l_msg THEN checked_add_1(Max(c_old, c_msg))
    ELSE IF l_new = l_old THEN checked_add_1(c_old)
    ELSE IF l_new = l_msg THEN wrapping_add_1(c_msg)
    ELSE SomeU16(0)

\* recv's counter rule adding 1 to the local counter where millis is taken
\* from the message
recv_counter_old_on_msg(l_new, l_old, c_old, l_msg, c_msg) ==
    IF l_new = l_old /\ l_new = l_msg THEN checked_add_1(Max(c_old, c_msg))
    ELSE IF l_new = l_old THEN checked_add_1(c_old)
    ELSE IF l_new = l_msg THEN checked_add_1(c_old)
    ELSE SomeU16(0)

\* The counter rule of Timestamp::recv, in the order the code tests it.
recv_counter(l_new, l_old, c_old, l_msg, c_msg) ==
    IF l_new = l_old /\ l_new = l_msg THEN checked_add_1(Max(c_old, c_msg))
    ELSE IF l_new = l_old THEN checked_add_1(c_old)
    ELSE IF l_new = l_msg THEN checked_add_1(c_msg)
    ELSE SomeU16(0)

\* recv writing millis and counter into the clock before its last drift test
recv_commit_first(self, msg, phys) ==
    LET l_msg == msg.millis
        c_msg == msg.counter
    IN  IF msg.node = self.node
        THEN [self |-> self, ret |-> DuplicateNodeError(self.node)]
        ELSE IF l_msg > phys /\ l_msg - phys > MAX_DRIFT
        THEN [self |-> self, ret |-> ClockDriftError(l_msg, phys, MAX_DRIFT)]
        ELSE LET l_old == self.millis
                 c_old == self.counter
                 l_new == Max(Max(l_old, phys), l_msg)
                 c_new == recv_counter(l_new, l_old, c_old, l_msg, c_msg)
             IN  IF ~c_new.some
                 THEN [self |-> self, ret |-> OverflowError]
                 ELSE LET s == [self EXCEPT !.millis = l_new,
                                            !.counter = c_new.val]
                      IN  IF l_new > phys /\ l_new - phys > MAX_DRIFT
                          THEN [self |-> s,
                                ret |-> ClockDriftError(l_new, phys, MAX_DRIFT)]
                          ELSE [self |-> s,
                                ret |-> Ok(Timestamp_new(s.millis, s.counter, s.node))]

\* recv testing the message's drift before the message's node
recv_drift_before_node(self, msg, phys) ==
    LET l_msg == msg.millis
        c_msg == msg.counter
    IN  IF l_msg > phys /\ l_msg - phys > MAX_DRIFT
        THEN [self |-> self, ret |-> ClockDriftError(l_msg, phys, MAX_DRIFT)]
        ELSE IF msg.node = self.node
        THEN [self |-> self, ret |-> DuplicateNodeError(self.node)]
        ELSE LET l_old == self.millis
                 c_old == self.counter
                 l_new == Max(Max(l_old, phys), l_msg)
                 c_new == recv_counter(l_new, l_old, c_old, l_msg, c_msg)
             IN  IF ~c_new.some
                 THEN [self |-> self, ret |-> OverflowError]
                 ELSE IF l_new > phys /\ l_new - phys > MAX_DRIFT
                 THEN [self |-> self,
                       ret |-> ClockDriftError(l_new, phys, MAX_DRIFT)]
                 ELSE LET s == [self EXCEPT !.millis = l_new,
                                            !.counter = c_new.val]
                      IN  [self |-> s,
                           ret |-> Ok(Timestamp_new(s.millis, s.counter, s.node))]

\* recv running its counter rule before it tests the message's drift
recv_counter_before_drift(self, msg, phys) ==
    LET l_msg == msg.millis
        c_msg == msg.counter
        l_old == self.millis
        c_old == self.counter
        l_new == Max(Max(l_old, phys), l_msg)
        c_new == recv_counter(l_new, l_old, c_old, l_msg, c_msg)
    IN  IF msg.node = self.node
        THEN [self |-> self, ret |-> DuplicateNodeError(self.node)]
        ELSE IF ~c_new.some
        THEN [self |-> self, ret |-> OverflowError]
        ELSE IF l_msg > phys /\ l_msg - phys > MAX_DRIFT
        THEN [self |-> self, ret |-> ClockDriftError(l_msg, phys, MAX_DRIFT)]
        ELSE IF l_new > phys /\ l_new - phys > MAX_DRIFT
        THEN [self |-> self, ret |-> ClockDriftError(l_new, phys, MAX_DRIFT)]
        ELSE LET s == [self EXCEPT !.millis = l_new, !.counter = c_new.val]
             IN  [self |-> s,
                  ret |-> Ok(Timestamp_new(s.millis, s.counter, s.node))]

\* recv without the drift test on l_new
recv_no_final_drift(self, msg, phys) ==
    LET l_msg == msg.millis
        c_msg == msg.counter
    IN  IF msg.node = self.node
        THEN [self |-> self, ret |-> DuplicateNodeError(self.node)]
        ELSE IF l_msg > phys /\ l_msg - phys > MAX_DRIFT
        THEN [self |-> self, ret |-> ClockDriftError(l_msg, phys, MAX_DRIFT)]
        ELSE LET l_old == self.millis
                 c_old == self.counter
                 l_new == Max(Max(l_old, phys), l_msg)
                 c_new == recv_counter(l_new, l_old, c_old, l_msg, c_msg)
             IN  IF ~c_new.some
                 THEN [self |-> self, ret |-> OverflowError]
                 ELSE LET s == [self EXCEPT !.millis = l_new,
                                            !.counter = c_new.val]
                      IN  [self |-> s,
                           ret |-> Ok(Timestamp_new(s.millis, s.counter, s.node))]

\* Timestamp::recv: the clock after the call (self) and the value returned (ret).
recv(self, msg, phys) ==
    LET l_msg == msg.millis
        c_msg == msg.counter
    IN  IF msg.node = self.node
        THEN [self |-> self, ret |-> DuplicateNodeError(self.node)]
        ELSE IF l_msg > phys /\ l_msg - phys > MAX_DRIFT
        THEN [self |-> self, ret |-> ClockDriftError(l_msg, phys, MAX_DRIFT)]
        ELSE LET l_old == self.millis
                 c_old == self.counter
                 l_new == Max(Max(l_old, phys), l_msg)
                 c_new == recv_counter(l_new, l_old, c_old, l_msg, c_msg)
             IN  IF ~c_new.some
                 THEN [self |-> self, ret |-> OverflowError]
                 ELSE IF l_new > phys /\ l_new - phys > MAX_DRIFT
                 THEN [self |-> self,
                       ret |-> ClockDriftError(l_new, phys, MAX_DRIFT)]
                 ELSE LET s == [self EXCEPT !.millis = l_new,
                                            !.counter = c_new.val]
                      IN  [self |-> s,
                           ret |-> Ok(Timestamp_new(s.millis, s.counter, s.node))]

-----------------------------------------------------------------------------
(* The values the calls are made with.                                     *)

Ticks == 0 .. MaxTick
MillisVals == Ticks \cup {MAX_DRIFT + t : t \in 0 .. (MaxTick + 1)}
\* phys is an i64: one value before the epoch too
PhysVals == MillisVals \cup {0 - 1}
CounterVals == {0, 1, U16_MAX - 1, U16_MAX}
Nodes == {NodeA, NodeB}
\* a remote counter below and above the local ones, and at the u16 limit
MsgCounterVals == {1, U16_MAX}
Msgs == {Timestamp_new(m, c, n) : m \in MillisVals, c \in MsgCounterVals, n \in Nodes}

NoCall == [op |-> "new"]
NoRet == [kind |-> "None"]


-----------------------------------------------------------------------------
(* The path of a trie's root, and diffRet before diff is called.           *)

EmptyPath == <<>>
NotCalled == [kind |-> "NotCalled"]

-----------------------------------------------------------------------------
(* Bounds of the trie model.                                               *)

\* the timestamps inserted lie in the minutes 0 .. MaxMinute
MaxMinute == 4
\* the number of insert calls of one behaviour, both tries together
MaxInserts == 4
\* the number of insert and prune calls of one behaviour of SpecPrune
MaxOps == 3

-----------------------------------------------------------------------------
(* Timestamp::to_string and Timestamp::hash (src/src/timestamp.rs).        *)

\* Timestamp::to_string on the timestamps of the model: chrono's RFC 3339 form
\* with milliseconds and Z, the counter as {:04X}, the node as {:016}.
CanonicalForms == {
    [ts |-> Timestamp_new(0, 0, NodeA),
     str |-> "1970-01-01T00:00:00.000Z-0000-1234123412341234"],
    [ts |-> Timestamp_new(60000, 0, NodeA),
     str |-> "1970-01-01T00:01:00.000Z-0000-1234123412341234"],
    [ts |-> Timestamp_new(120000, 0, NodeA),
     str |-> "1970-01-01T00:02:00.000Z-0000-1234123412341234"],
    [ts |-> Timestamp_new(180000, 0, NodeA),
     str |-> "1970-01-01T00:03:00.000Z-0000-1234123412341234"],
    [ts |-> Timestamp_new(240000, 0, NodeA),
     str |-> "1970-01-01T00:04:00.000Z-0000-1234123412341234"],
    [ts |-> Timestamp_new(300000, 0, NodeA),
     str |-> "1970-01-01T00:05:00.000Z-0000-1234123412341234"],
    [ts |-> Timestamp_new(360000, 0, NodeA),
     str |-> "1970-01-01T00:06:00.000Z-0000-1234123412341234"],
    [ts |-> Timestamp_new(420000, 0, NodeA),
     str |-> "1970-01-01T00:07:00.000Z-0000-1234123412341234"],
    [ts |-> Timestamp_new(480000, 0, NodeA),
     str |-> "1970-01-01T00:08:00.000Z-0000-1234123412341234"],
    [ts |-> Timestamp_new(540000, 0, NodeA),
     str |-> "1970-01-01T00:09:00.000Z-0000-1234123412341234"],
    [ts |-> Timestamp_new(60001, 0, NodeB),
     str |-> "1970-01-01T00:01:00.001Z-0000-4321432143214321"] }

to_string(self) == (CHOOSE e \in CanonicalForms : e.ts = self).str

\* murmur3_32(bytes, 0) of these strings: MurmurHash3 x86 32-bit with seed 0,
\* each value in two 16-bit halves.
Murmur3Values == {
    [str |-> "1970-01-01T00:00:00.000Z-0000-1234123412341234",
     hi |-> 54351, lo |-> 38939],  \* 0xD44F981B
    [str |-> "1970-01-01T00:01:00.000Z-0000-1234123412341234",
     hi |-> 32884, lo |-> 48893],  \* 0x8074BEFD
    [str |-> "1970-01-01T00:02:00.000Z-0000-1234123412341234",
     hi |-> 13105, lo |-> 12952],  \* 0x33313298
    [str |-> "1970-01-01T00:03:00.000Z-0000-1234123412341234",
     hi |-> 52055, lo |-> 34529],  \* 0xCB5786E1
    [str |-> "1970-01-01T00:04:00.000Z-0000-1234123412341234",
     hi |-> 56801, lo |-> 29283],  \* 0xDDE17263
    [str |-> "1970-01-01T00:05:00.000Z-0000-1234123412341234",
     hi |-> 6149, lo |-> 28878],  \* 0x180570CE
    [str |-> "1970-01-01T00:06:00.000Z-0000-1234123412341234",
     hi |-> 27047, lo |-> 45167],  \* 0x69A7B06F
    [str |-> "1970-01-01T00:07:00.000Z-0000-1234123412341234",
     hi |-> 20987, lo |-> 53877],  \* 0x51FBD275
    [str |-> "1970-01-01T00:08:00.000Z-0000-1234123412341234",
     hi |-> 8491, lo |-> 57917],  \* 0x212BE23D
    [str |-> "1970-01-01T00:09:00.000Z-0000-1234123412341234",
     hi |-> 15657, lo |-> 33769],  \* 0x3D2983E9
    [str |-> "1970-01-01T00:01:00.001Z-0000-4321432143214321",
     hi |-> 64581, lo |-> 13248]  \* 0xFC4533C0
    }

\* An unsigned word as the set of the positions of its 1 bits, so that a u32
\* cast to u64 is the same set and ^ is the symmetric difference.
RECURSIVE BitsOf(_, _)
BitsOf(n, i) ==
    IF n = 0 THEN {}
    ELSE (IF n % 2 = 1 THEN {i} ELSE {}) \cup BitsOf(n \div 2, i + 1)

murmur3_32(str) ==
    LET e == CHOOSE e \in Murmur3Values : e.str = str
    IN  BitsOf(e.lo, 0) \cup BitsOf(e.hi, 16)

\* Timestamp::hash, worked out once for each timestamp of the model
HashOfStamp ==
    [ts \in {e.ts : e \in CanonicalForms} |-> murmur3_32(to_string(ts))]

hash(self) == HashOfStamp[self]

\* a | b in the place of a ^ b
BitOr(a, b) == a \cup b

\* a ^ b
Xor(a, b) == (a \ b) \cup (b \ a)

\* i64 division, which truncates toward zero
TruncDiv(a, b) == IF a >= 0 THEN a \div b ELSE 0 - ((0 - a) \div b)

\* Timestamp::ts_minutes
ts_minutes(self) == TruncDiv(TruncDiv(self.millis, 1000), 60)

-----------------------------------------------------------------------------
(* Trie (src/src/trie.rs).  A Trie is held as the function from the path of *)
(* each of its nodes (the child keys from the root down; <<>> is the root) *)
(* to that node's hash.  A key is a sequence of the digits 0, 1, 2, which  *)
(* stand for the one-character strings "0", "1", "2".                      *)

\* millis_to_base3: the digits of millis, most significant first; "0" for 0 and
\* the empty string for a negative number, for which the loop never runs
RECURSIVE base3_digits(_)
base3_digits(millis) ==
    IF millis > 0 THEN Append(base3_digits(millis \div 3), millis % 3) ELSE <<>>

millis_to_base3(millis) == IF millis = 0 THEN <<0>> ELSE base3_digits(millis)

\* Trie::new
Trie_new == [p \in {EmptyPath} |-> {}]

\* children.entry(child_key).or_insert_with(Trie::new)
or_insert(trie, child) ==
    IF child \in DOMAIN trie THEN trie
    ELSE [p \in DOMAIN trie \cup {child} |-> IF p = child THEN {} ELSE trie[p]]

\* insert_key storing the hash in the child in the place of XORing it in
RECURSIVE insert_key_assign(_, _, _, _)
insert_key_assign(trie, at, key, h) ==
    IF key = <<>> THEN trie
    ELSE LET child == Append(at, Head(key))
             t1 == or_insert(trie, child)
             t2 == [t1 EXCEPT ![child] = h]
         IN  insert_key_assign(t2, child, Tail(key), h)

\* Trie::insert_key on the node at path `at` of the trie
RECURSIVE insert_key(_, _, _, _)
insert_key(trie, at, key, h) ==
    IF key = <<>> THEN trie
    ELSE LET child == Append(at, Head(key))
             t1 == or_insert(trie, child)
             t2 == [t1 EXCEPT ![child] = Xor(@, h)]
         IN  insert_key(t2, child, Tail(key), h)

\* insert without the XOR into the root's own hash
insert_no_root(self, timestamp) ==
    LET h == hash(timestamp)
        minutes == ts_minutes(timestamp)
        key == millis_to_base3(minutes)
    IN  insert_key(self, EmptyPath, key, h)

\* Trie::insert
insert(self, timestamp) ==
    LET h == hash(timestamp)
        minutes == ts_minutes(timestamp)
        key == millis_to_base3(minutes)
        s1 == [self EXCEPT ![EmptyPath] = Xor(@, h)]
    IN  insert_key(s1, EmptyPath, key, h)

\* Trie::build
RECURSIVE build_from(_, _)
build_from(trie, timestamps) ==
    IF timestamps = <<>> THEN trie
    ELSE build_from(insert(trie, Head(timestamps)), Tail(timestamps))

build(timestamps) == build_from(Trie_new, timestamps)

\* An i64 beyond the 32-bit integers of TLC, held as hi * 1000000 + lo.
I64(n) == [hi |-> n \div 1000000, lo |-> n % 1000000]

\* a * k, for 0 <= k <= 1000
I64Mul(a, k) ==
    LET lo == a.lo * k
    IN  [hi |-> a.hi * k + lo \div 1000000, lo |-> lo % 1000000]

\* a / k, for 0 < k <= 1000
I64Div(a, k) ==
    [hi |-> a.hi \div k, lo |-> ((a.hi % k) * 1000000 + a.lo) \div k]

\* format!("{:0<16}", key): the key with '0' appended up to 16 characters
RECURSIVE pad_right_16(_)
pad_right_16(key) == IF Len(key) >= 16 THEN key ELSE pad_right_16(Append(key, 0))

\* i64::from_str_radix(digits, 3)
RECURSIVE from_str_radix_3(_)
from_str_radix_3(digits) ==
    IF digits = <<>> THEN 0
    ELSE from_str_radix_3(SubSeq(digits, 1, Len(digits) - 1)) * 3
            + digits[Len(digits)]

\* Trie::key_to_timestamp
key_to_timestamp(key) ==
    LET full_key == pad_right_16(key)
        millis == I64Mul(I64Mul(I64(from_str_radix_3(full_key)), 1000), 60)
    IN  I64Div(millis, 1000)

\* Option<Vec<String>> and Option<i64>
NonePath == [some |-> FALSE]
SomePath(path) == [some |-> TRUE, path |-> path]
NoneI64 == [kind |-> "None"]
SomeI64(n) == [kind |-> "Some", val |-> n]

\* the keys of self.children at the node `path`, in the BTreeMap's order
child_keys(trie, path) ==
    SelectSeq(<<0, 1, 2>>, LAMBDA k : Append(path, k) \in DOMAIN trie)

\* Trie::diff_recursive on the nodes at `path` of both tries; for_children is
\* its loop over the children of self
RECURSIVE diff_recursive(_, _, _)
RECURSIVE for_children(_, _, _, _)
for_children(self, other, path, keys) ==
    IF keys = <<>> THEN NonePath
    ELSE LET child == Append(path, Head(keys))
         IN  IF child \in DOMAIN other
             THEN IF self[child] # other[child]
                  THEN SomePath(child)
                  ELSE LET divergence_path == diff_recursive(self, other, child)
                       IN  IF divergence_path.some THEN divergence_path
                           ELSE for_children(self, other, path, Tail(keys))
             ELSE SomePath(child)

diff_recursive(self, other, path) ==
    IF self[path] = other[path] THEN NonePath
    ELSE for_children(self, other, path, child_keys(self, path))

\* diff turning the path it stopped at into a timestamp also when
\* diff_recursive found no divergence
diff_path_always(self, other) ==
    LET divergence_path == diff_recursive(self, other, EmptyPath)
    IN  IF divergence_path.some
        THEN SomeI64(key_to_timestamp(divergence_path.path))
        ELSE SomeI64(key_to_timestamp(EmptyPath))

\* Trie::diff
diff(self, other) ==
    LET divergence_path == diff_recursive(self, other, EmptyPath)
    IN  IF divergence_path.some
        THEN SomeI64(key_to_timestamp(divergence_path.path))
        ELSE NoneI64

\* a u64 as the set of the positions of its 1 bits
u64_bits(n) == BitsOf(n, 0)

\* format!("{:b}", minutes): the binary digits of minutes, "0" for 0
RECURSIVE base2_digits(_)
base2_digits(n) ==
    IF n = 0 THEN <<>> ELSE Append(base2_digits(n \div 2), n % 2)

format_b(minutes) == IF minutes = 0 THEN <<0>> ELSE base2_digits(minutes)

\* self.children.remove(child_key), for a child that has no children
children_remove(trie, child) == [p \in DOMAIN trie \ {child} |-> trie[p]]

\* Trie::prune_key on the node at path `at` of the trie
RECURSIVE prune_key(_, _, _, _)
prune_key(trie, at, key, h) ==
    IF key = <<>> THEN trie
    ELSE LET child == Append(at, Head(key))
             t1 == IF child \in DOMAIN trie
                   THEN LET t == prune_key(trie, child, Tail(key), h)
                        IN  IF child_keys(t, child) = <<>>
                            THEN children_remove(t, child)
                            ELSE t
                   ELSE trie
         IN  [t1 EXCEPT ![at] = Xor(@, h)]

\* Trie::prune: timestamp is a u64 of milliseconds
prune(self, timestamp) ==
    LET h == u64_bits(timestamp)
        minutes == timestamp \div (1000 * 60)
        key == format_b(minutes)
        s1 == [self EXCEPT ![EmptyPath] = Xor(@, h)]
    IN  prune_key(s1, EmptyPath, key, h)

-----------------------------------------------------------------------------
(* Spec: one clock.                                                        *)

\* Timestamp::new(millis, counter, node): any millis and any u16 counter
InitClock ==
    /\ clock \in {Timestamp_new(m, c, NodeA) : m \in MillisVals, c \in CounterVals}
    /\ prev = clock
    /\ ret = NoRet
    /\ lastCall = NoCall
    /\ returned = <<>>
    /\ calls = 0
    /\ prevRet = NoRet.kind
    /\ clockB = Timestamp_new(0, 0, NodeB)
    /\ net = {}

InitTrieIdle ==
    /\ trieA = Trie_new
    /\ trieB = Trie_new
    /\ histA = <<>>
    /\ histB = <<>>
    /\ diffRet = NotCalled
    /\ diffRetBA = NotCalled
    /\ opsA = <<>>
    /\ snapsA = <<>>
    /\ diffWith = "other"

Init == InitClock /\ InitTrieIdle

Returned(r, n) == IF r.kind = "Ok" THEN <<[call |-> n, ts |-> r.ts]>> ELSE <<>>

Send(phys) ==
    /\ calls < MaxCalls
    /\ LET r == send(clock, phys)
       IN  /\ clock' = r.self
           /\ ret' = r.ret
           /\ returned' = returned \o Returned(r.ret, calls + 1)
    /\ prev' = clock
    /\ lastCall' = [op |-> "send", phys |-> phys]
    /\ calls' = calls + 1
    /\ prevRet' = ret.kind
    /\ UNCHANGED <<clockB, net>>
    /\ UNCHANGED trieVars

Recv(msg, phys) ==
    /\ calls < MaxCalls
    /\ LET r == recv(clock, msg, phys)
       IN  /\ clock' = r.self
           /\ ret' = r.ret
           /\ returned' = returned \o Returned(r.ret, calls + 1)
    /\ prev' = clock
    /\ lastCall' = [op |-> "recv", msg |-> msg, phys |-> phys]
    /\ calls' = calls + 1
    /\ prevRet' = ret.kind
    /\ UNCHANGED <<clockB, net>>
    /\ UNCHANGED trieVars

Next ==
    \/ \E phys \in PhysVals : Send(phys)
    \/ \E msg \in Msgs, phys \in PhysVals : Recv(msg, phys)

Spec == Init /\ [][Next]_vars

-----------------------------------------------------------------------------
(* SpecNet: two clocks with distinct node ids; what one sends, the other   *)
(* may receive.                                                            *)

NetPhysVals == {0, 1, MAX_DRIFT + 1}
NetCounterVals == {0, 1, U16_MAX - 1}
NetClocks(node) ==
    {Timestamp_new(m, c, node) : m \in {0, 1}, c \in NetCounterVals}

InitNet ==
    /\ clock \in NetClocks(NodeA)
    /\ clockB \in NetClocks(NodeB)
    /\ net = {}
    /\ prev = clock
    /\ ret = NoRet
    /\ lastCall = NoCall
    /\ returned = <<>>
    /\ calls = 0
    /\ prevRet = NoRet.kind
    /\ InitTrieIdle

ClockOf(node) == IF node = NodeA THEN clock ELSE clockB

\* the call returned r at the clock of node
NetCalled(node, r, call) ==
    /\ clock' = (IF node = NodeA THEN r.self ELSE clock)
    /\ clockB' = (IF node = NodeB THEN r.self ELSE clockB)
    /\ ret' = r.ret
    /\ prev' = ClockOf(node)
    /\ lastCall' = call
    /\ calls' = calls + 1
    /\ UNCHANGED <<returned, prevRet>>
    /\ UNCHANGED trieVars

\* send at a node; the timestamp returned goes out as a message
NetSend(node, phys) ==
    /\ calls < MaxNetCalls
    /\ LET r == send(ClockOf(node), phys)
       IN  /\ NetCalled(node, r, [op |-> "send", phys |-> phys])
           /\ net' = (IF r.ret.kind = "Ok" THEN net \cup {r.ret.ts} ELSE net)

\* a message in flight is delivered at a node
NetRecv(node, msg, phys) ==
    /\ calls < MaxNetCalls
    /\ msg \in net
    /\ LET r == recv(ClockOf(node), msg, phys)
       IN  NetCalled(node, r, [op |-> "recv", msg |-> msg, phys |-> phys])
    /\ UNCHANGED net

NextNet ==
    \/ \E node \in Nodes, phys \in NetPhysVals : NetSend(node, phys)
    \/ \E node \in Nodes, msg \in net, phys \in NetPhysVals :
           NetRecv(node, msg, phys)

SpecNet == InitNet /\ [][NextNet]_vars

-----------------------------------------------------------------------------
(* SpecTrie: two tries.                                                    *)

\* one timestamp in each of the minutes 0 .. MaxMinute, and a second timestamp,
\* of another node, in minute 1
Stamps ==
    {Timestamp_new(m * 60000, 0, NodeA) : m \in 0 .. MaxMinute}
        \cup {Timestamp_new(60001, 0, NodeB)}

InitClockIdle ==
    /\ clock = Timestamp_new(0, 0, NodeA)
    /\ prev = clock
    /\ ret = NoRet
    /\ lastCall = NoCall
    /\ returned = <<>>
    /\ calls = 0
    /\ prevRet = NoRet.kind
    /\ clockB = Timestamp_new(0, 0, NodeB)
    /\ net = {}

InitTrie == InitClockIdle /\ InitTrieIdle

InsertA(timestamp) ==
    /\ Len(histA) + Len(histB) < MaxInserts
    /\ trieA' = insert(trieA, timestamp)
    /\ histA' = Append(histA, timestamp)
    /\ diffRet' = NotCalled
    /\ diffRetBA' = NotCalled
    /\ UNCHANGED <<trieB, histB>>
    /\ UNCHANGED <<opsA, snapsA, diffWith>>
    /\ UNCHANGED clockVars

InsertB(timestamp) ==
    /\ Len(histA) + Len(histB) < MaxInserts
    /\ trieB' = insert(trieB, timestamp)
    /\ histB' = Append(histB, timestamp)
    /\ diffRet' = NotCalled
    /\ diffRetBA' = NotCalled
    /\ UNCHANGED <<trieA, histA>>
    /\ UNCHANGED <<opsA, snapsA, diffWith>>
    /\ UNCHANGED clockVars

Diff ==
    /\ diffRet' = diff(trieA, trieB)
    /\ UNCHANGED <<trieA, trieB, histA, histB, diffRetBA>>
    /\ UNCHANGED <<opsA, snapsA, diffWith>>
    /\ UNCHANGED clockVars

NextTrie ==
    \/ \E timestamp \in Stamps : InsertA(timestamp)
    \/ \E timestamp \in Stamps : InsertB(timestamp)
    \/ Diff

SpecTrie == InitTrie /\ [][NextTrie]_vars

-----------------------------------------------------------------------------
(* SpecSym: two tries, diff called in both directions.                     *)

\* trieB.diff(&trieA)
DiffBA ==
    /\ diffRetBA' = diff(trieB, trieA)
    /\ UNCHANGED <<trieA, trieB, histA, histB, diffRet>>
    /\ UNCHANGED <<opsA, snapsA, diffWith>>
    /\ UNCHANGED clockVars

NextSym ==
    \/ \E timestamp \in Stamps : InsertA(timestamp)
    \/ \E timestamp \in Stamps : InsertB(timestamp)
    \/ Diff
    \/ DiffBA

SpecSym == InitTrie /\ [][NextSym]_vars

-----------------------------------------------------------------------------
(* SpecPrune: one trie with insert, prune and diff.                        *)

\* the values prune is called with: the millis of the timestamps inserted
PruneVals == {timestamp.millis : timestamp \in Stamps}

InsertOp(timestamp) == [op |-> "insert", timestamp |-> timestamp]
PruneOp(timestamp) == [op |-> "prune", timestamp |-> timestamp]

Insert(timestamp) ==
    /\ Len(opsA) < MaxOps
    /\ trieA' = insert(trieA, timestamp)
    /\ histA' = Append(histA, timestamp)
    /\ opsA' = Append(opsA, InsertOp(timestamp))
    /\ snapsA' = Append(snapsA, trieA)
    /\ diffRet' = NotCalled
    /\ diffWith' = "other"
    /\ UNCHANGED <<trieB, histB, diffRetBA>>
    /\ UNCHANGED clockVars

Prune(timestamp) ==
    /\ Len(opsA) < MaxOps
    /\ trieA' = prune(trieA, timestamp)
    /\ opsA' = Append(opsA, PruneOp(timestamp))
    /\ snapsA' = Append(snapsA, trieA)
    /\ diffRet' = NotCalled
    /\ diffWith' = "other"
    /\ UNCHANGED <<trieB, histA, histB, diffRetBA>>
    /\ UNCHANGED clockVars

\* trieA.diff(&trieA)
DiffSelf ==
    /\ diffRet' = diff(trieA, trieA)
    /\ diffWith' = "self"
    /\ UNCHANGED <<trieA, trieB, histA, histB, diffRetBA, opsA, snapsA>>
    /\ UNCHANGED clockVars

\* trieA.diff(&before), before a clone of trieA taken two calls ago
DiffBefore ==
    /\ Len(opsA) >= 2
    /\ diffRet' = diff(trieA, snapsA[Len(opsA) - 1])
    /\ diffWith' = "before"
    /\ UNCHANGED <<trieA, trieB, histA, histB, diffRetBA, opsA, snapsA>>
    /\ UNCHANGED clockVars

NextPrune ==
    \/ \E timestamp \in Stamps : Insert(timestamp)
    \/ \E timestamp \in PruneVals : Prune(timestamp)
    \/ DiffSelf
    \/ DiffBefore

SpecPrune == InitTrie /\ [][NextPrune]_vars

-----------------------------------------------------------------------------
(* The clock's claims, checked under Spec.                                 *)

\* the lexicographic order on (millis, counter)
TsLess(a, b) ==
    \/ a.millis < b.millis
    \/ a.millis = b.millis /\ a.counter < b.counter

SendOk == lastCall.op = "send" /\ ret.kind = "Ok"
RecvOk == lastCall.op = "recv" /\ ret.kind = "Ok"

\* C1: the timestamps one clock returns, over any sequence of send and recv
\* calls with failed calls among them, are strictly increasing in
\* (millis, counter): each is greater than every one returned before it.
C1_StrictlyMonotone ==
    \A i, j \in 1 .. Len(returned) :
        i < j => TsLess(returned[i].ts, returned[j].ts)

\* a first call that returned Ok, a second that failed, a third that returned Ok
W_C1_OkErrOk ==
    /\ Len(returned) = 2
    /\ returned[1].call = 1
    /\ returned[2].call = 3
    /\ lastCall.op = "recv"

\* C2: a call that returns an error leaves millis, counter and node of the
\* clock as they were before the call.
C2_ErrorLeavesClock == IsErr(ret) => clock = prev

\* recv failing in its last drift test, after its counter rule has run
W_C2_LateDriftError ==
    /\ lastCall.op = "recv"
    /\ ret.kind = "ClockDriftError"
    /\ lastCall.msg.millis < prev.millis
    /\ ret.l = prev.millis
    /\ prev.counter < U16_MAX

\* C7: a successful send(phys) sets millis to max(old millis, phys), the counter
\* to old counter + 1 when phys <= old millis and to 0 when phys > old millis,
\* and returns the clock's new (millis, counter, node).
C7_SendOk ==
    SendOk =>
        LET phys == lastCall.phys
        IN  /\ clock.millis = (IF prev.millis >= phys THEN prev.millis ELSE phys)
            /\ phys <= prev.millis => clock.counter = prev.counter + 1
            /\ phys > prev.millis => clock.counter = 0
            /\ clock.node = prev.node
            /\ ret.ts = clock

\* a send with phys ahead of the clock that resets a counter at the u16 limit
W_C7_SendResets ==
    /\ SendOk
    /\ lastCall.phys > prev.millis
    /\ prev.counter = U16_MAX
    /\ clock.counter = 0

\* C8: a successful recv(msg, phys) sets millis to
\* l_new = max(old millis, phys, msg.millis) and the counter to
\* max(old counter, msg.counter) + 1 if l_new equals old millis and msg.millis,
\* else old counter + 1 if l_new equals old millis, else msg.counter + 1 if
\* l_new equals msg.millis, else 0.
C8_RecvOk ==
    RecvOk =>
        LET msg == lastCall.msg
            phys == lastCall.phys
            m1 == IF prev.millis >= phys THEN prev.millis ELSE phys
            l_new == IF m1 >= msg.millis THEN m1 ELSE msg.millis
            c_max == IF prev.counter >= msg.counter THEN prev.counter
                     ELSE msg.counter
        IN  /\ clock.millis = l_new
            /\ clock.counter =
                   (IF l_new = prev.millis /\ l_new = msg.millis THEN c_max + 1
                    ELSE IF l_new = prev.millis THEN prev.counter + 1
                    ELSE IF l_new = msg.millis THEN msg.counter + 1
                    ELSE 0)

\* a recv where all three millis tie and the message's counter is the larger
W_C8_TieTakesMax ==
    /\ RecvOk
    /\ prev.millis = lastCall.msg.millis
    /\ lastCall.phys <= prev.millis
    /\ lastCall.msg.counter > prev.counter
    /\ clock.counter = lastCall.msg.counter + 1

\* C9: send(phys) with phys <= millis and counter = 65535 fails with
\* OverflowError; the counter of the clock is always within 0..65535 and never
\* gets smaller while millis stays the same.
C9_CounterNoWrap ==
    /\ clock.counter \in 0 .. U16_MAX
    /\ (lastCall.op = "send" /\ lastCall.phys <= prev.millis
            /\ prev.counter = U16_MAX) => ret = OverflowError
    /\ clock.millis = prev.millis => clock.counter >= prev.counter

\* a send at the u16 limit with phys not ahead of the clock
W_C9_SendOverflow ==
    /\ lastCall.op = "send"
    /\ lastCall.phys <= prev.millis
    /\ prev.counter = U16_MAX
    /\ ret.kind = "OverflowError"

\* C10: when the counter does not overflow, send(phys) fails with
\* ClockDriftError(l_new, phys, 60000), l_new = max(old millis, phys), exactly
\* when l_new - phys > 60000; at l_new - phys = 60000 it succeeds.
C10_SendDrift ==
    (lastCall.op = "send"
        /\ ~(lastCall.phys <= prev.millis /\ prev.counter = U16_MAX)) =>
        LET phys == lastCall.phys
            l_new == IF prev.millis >= phys THEN prev.millis ELSE phys
        IN  /\ l_new - phys > 60000 <=> ret = ClockDriftError(l_new, phys, 60000)
            /\ l_new - phys = 60000 => ret.kind = "Ok"

\* a send refused one millisecond beyond the allowed drift
W_C10_SendDriftError ==
    /\ lastCall.op = "send"
    /\ ret.kind = "ClockDriftError"
    /\ prev.millis - lastCall.phys = MAX_DRIFT + 1

\* C11: recv(msg, phys) with msg.node equal to the clock's node fails with
\* DuplicateNodeError(clock.node) for every msg.millis, msg.counter and phys,
\* also where the drift tests or the counter rule would have failed.
C11_DuplicateNodeFirst ==
    (lastCall.op = "recv" /\ lastCall.msg.node = prev.node) =>
        ret = DuplicateNodeError(prev.node)

\* a message of the clock's own node that is beyond the allowed drift and
\* carries a counter at the u16 limit
W_C11_OwnNodeBeyondDrift ==
    /\ lastCall.op = "recv"
    /\ lastCall.msg.node = prev.node
    /\ lastCall.msg.millis - lastCall.phys > MAX_DRIFT
    /\ lastCall.msg.counter = U16_MAX
    /\ ret.kind = "DuplicateNodeError"

\* C12: recv(msg, phys) with msg.node different from the clock's node and
\* msg.millis - phys > 60000 fails with ClockDriftError(msg.millis, phys, 60000),
\* whatever millis and counter the clock has.
C12_MessageDrift ==
    (lastCall.op = "recv" /\ lastCall.msg.node # prev.node
        /\ lastCall.msg.millis - lastCall.phys > 60000) =>
        ret = ClockDriftError(lastCall.msg.millis, lastCall.phys, 60000)

\* a message beyond the allowed drift received by a clock whose counter is at
\* the u16 limit and whose millis equal the message's
W_C12_DriftAtCounterLimit ==
    /\ lastCall.op = "recv"
    /\ lastCall.msg.node # prev.node
    /\ lastCall.msg.millis - lastCall.phys > MAX_DRIFT
    /\ prev.counter = U16_MAX
    /\ prev.millis = lastCall.msg.millis
    /\ ret.kind = "ClockDriftError"

\* l_new of the last recv call
RecvLNew ==
    LET m1 == IF prev.millis >= lastCall.phys THEN prev.millis ELSE lastCall.phys
    IN  IF m1 >= lastCall.msg.millis THEN m1 ELSE lastCall.msg.millis

\* the last call is a recv, and the addition its counter rule selects for the
\* clock and the message of the call exceeds 65535
RecvAdditionExceeds ==
    /\ lastCall.op = "recv"
    /\ LET msg == lastCall.msg
           l_new == RecvLNew
       IN  \/ l_new = prev.millis /\ l_new = msg.millis
                /\ (prev.counter = 65535 \/ msg.counter = 65535)
           \/ l_new = prev.millis /\ l_new # msg.millis /\ prev.counter = 65535
           \/ l_new = msg.millis /\ l_new # prev.millis /\ msg.counter = 65535

\* the last call is a recv that got as far as its counter rule
RecvReachedCounterRule ==
    /\ lastCall.op = "recv"
    /\ lastCall.msg.node # prev.node
    /\ ~(lastCall.msg.millis - lastCall.phys > MAX_DRIFT)

\* a counter recv returns is above the counter its rule added 1 to
RecvCounterNotWrapped ==
    RecvOk =>
        LET msg == lastCall.msg
            l_new == RecvLNew
        IN  /\ ret.ts.counter \in 0 .. 65535
            /\ l_new = prev.millis => ret.ts.counter > prev.counter
            /\ l_new = msg.millis => ret.ts.counter > msg.counter

\* C13, as amended: recv of a message of another node and within the allowed
\* drift fails with OverflowError whenever the addition selected by its counter
\* rule would exceed 65535; recv never returns a wrapped counter.
C13_RecvOverflow ==
    /\ (RecvReachedCounterRule /\ RecvAdditionExceeds) => ret = OverflowError
    /\ RecvCounterNotWrapped

\* a message with its counter at the u16 limit and millis ahead of the clock's
W_C13_MsgCounterAtLimit ==
    /\ RecvReachedCounterRule
    /\ lastCall.msg.counter = U16_MAX
    /\ lastCall.msg.millis > prev.millis
    /\ lastCall.msg.millis >= lastCall.phys
    /\ prev.counter < U16_MAX
    /\ ret = OverflowError

\* C13, as stated: recv fails with OverflowError whenever the addition selected
\* by its counter rule would exceed 65535, whatever the message's node and
\* drift are; it never returns a wrapped counter.
C13_RecvOverflowAlways ==
    /\ RecvAdditionExceeds => ret = OverflowError
    /\ RecvCounterNotWrapped

\* C19: from every clock state, also one whose last call returned
\* OverflowError, send(phys) with phys > clock.millis succeeds and returns
\* (phys, 0, node).
C19_SendAheadSucceeds ==
    (lastCall.op = "send" /\ lastCall.phys > prev.millis) =>
        /\ ret = Ok(Timestamp_new(lastCall.phys, 0, prev.node))
        /\ clock = Timestamp_new(lastCall.phys, 0, prev.node)

\* a send that returned OverflowError, followed by a send with phys ahead
W_C19_AfterOverflow ==
    /\ prevRet = OverflowError.kind
    /\ lastCall.op = "send"
    /\ lastCall.phys > prev.millis
    /\ prev.counter = U16_MAX
    /\ ret.kind = "Ok"

\* C23: after every successful send(phys) or recv(msg, phys) the clock's millis
\* is at least phys and at most phys + 60000.
C23_WithinDriftOfPhys ==
    (SendOk \/ RecvOk) =>
        /\ clock.millis >= lastCall.phys
        /\ clock.millis <= lastCall.phys + 60000

\* a recv that succeeds with the clock exactly MAX_DRIFT ahead of phys, the
\* clock's own millis being the largest of the three
W_C23_RecvAtDriftLimit ==
    /\ RecvOk
    /\ prev.millis > lastCall.msg.millis
    /\ clock.millis = lastCall.phys + MAX_DRIFT

\* C22: in any interleaving of sends and deliveries among clocks with distinct
\* node ids, every successful recv(msg, phys) returns a timestamp strictly
\* greater than msg in the order on (millis, counter).
C22_RecvAfterSend ==
    RecvOk => TsLess(lastCall.msg, ret.ts)

\* a node receives what the other node sent, with millis ahead of its own and
\* a counter above its own
W_C22_MsgAhead ==
    /\ RecvOk
    /\ lastCall.msg \in net
    /\ lastCall.msg.node # prev.node
    /\ lastCall.msg.millis > prev.millis
    /\ lastCall.msg.millis >= lastCall.phys
    /\ lastCall.msg.counter > prev.counter
    /\ ret.ts.millis = lastCall.msg.millis

-----------------------------------------------------------------------------
(* The trie's claims, checked under SpecTrie.                              *)

SetOf(seq) == {seq[i] : i \in DOMAIN seq}
NoDuplicates(seq) == Cardinality(SetOf(seq)) = Len(seq)
IsPrefix(p, k) == Len(p) <= Len(k) /\ SubSeq(k, 1, Len(p)) = p

\* the key insert files a timestamp under
KeyOf(timestamp) == millis_to_base3(ts_minutes(timestamp))

\* the XOR of the hashes of the timestamps of hist whose key starts with path:
\* bit b is 1 when an odd number of these hashes has bit b
XorUnder(hist, path) ==
    LET under == {i \in DOMAIN hist : IsPrefix(path, KeyOf(hist[i]))}
        bits == UNION {hash(hist[i]) : i \in under}
    IN  {b \in bits :
            Cardinality({i \in under : b \in hash(hist[i])}) % 2 = 1}

NodeHashesAreXors(trie, hist) ==
    /\ trie[EmptyPath] = XorUnder(hist, EmptyPath)
    /\ \A path \in DOMAIN trie \ {EmptyPath} : trie[path] = XorUnder(hist, path)

\* C3: after any sequence of inserts into an empty trie, the root's hash is the
\* XOR of the hashes of all inserted timestamps, and the hash of every other
\* node is the XOR of the hashes of the inserted timestamps whose key has the
\* node's path as a prefix.
C3_NodeHashesAreXors ==
    /\ NodeHashesAreXors(trieA, histA)
    /\ NodeHashesAreXors(trieB, histB)

\* a node below the root with three timestamps of two keys under it, and a
\* leaf below it
W_C3_SharedPrefix ==
    /\ Len(histA) = 3
    /\ NoDuplicates(histA)
    /\ \A i \in DOMAIN histA : IsPrefix(<<1>>, KeyOf(histA[i]))
    /\ <<1, 0>> \in DOMAIN trieA

\* the minute bucket floor(millis / 60_000)
MinuteOf(timestamp) == timestamp.millis \div 60000

\* the timestamps that are in one of the two sets only
Differing == (SetOf(histA) \ SetOf(histB)) \cup (SetOf(histB) \ SetOf(histA))

EarliestDifferingMinute ==
    CHOOSE m \in {MinuteOf(t) : t \in Differing} :
        \A t \in Differing : m <= MinuteOf(t)

\* no hash collisions: two nodes of the same path have the same hash only when
\* the same timestamps lie under them
NoHashCollisions ==
    \A path \in DOMAIN trieA \cup DOMAIN trieB :
        XorUnder(histA, path) = XorUnder(histB, path) =>
            {t \in SetOf(histA) : IsPrefix(path, KeyOf(t))}
                = {t \in SetOf(histB) : IsPrefix(path, KeyOf(t))}

DiffCalled == diffRet # NotCalled

\* C4: for tries built from two different sets of timestamps, without hash
\* collisions, A.diff(B) returns Some(m * 60_000), m the smallest minute bucket
\* whose timestamps are not the same in both sets.
C4_DiffEarliestMinute ==
    (/\ DiffCalled
     /\ NoDuplicates(histA) /\ NoDuplicates(histB)
     /\ SetOf(histA) # SetOf(histB)
     /\ NoHashCollisions) =>
        diffRet = SomeI64(I64(EarliestDifferingMinute * 60000))

\* C5: diff returns None exactly when the hashes of the two roots are equal;
\* with different root hashes it returns Some, also when self is empty or when
\* every child of self has a child of the same hash in other.
C5_NoneIffRootsEqual ==
    DiffCalled => (diffRet = NoneI64 <=> trieA[EmptyPath] = trieB[EmptyPath])

Count(seq, x) == Cardinality({i \in DOMAIN seq : seq[i] = x})
IsPermutation(s, t) == \A x \in SetOf(s) \cup SetOf(t) : Count(s, x) = Count(t, x)

\* C6: build of a sequence of timestamps and build of any permutation of it
\* yield the same trie, with the same node paths and the same hash at every
\* node, and the two diff to None.
C6_BuildOrderIndependent ==
    IsPermutation(histA, histB) =>
        LET a == build(histA)
            b == build(histB)
        IN  /\ a = trieA /\ b = trieB
            /\ DOMAIN a = DOMAIN b
            /\ \A path \in DOMAIN a : a[path] = b[path]
            /\ diff(a, b) = NoneI64
            /\ DiffCalled => diffRet = NoneI64

\* two timestamps of the same minute inserted in the two orders, and diffed
W_C6_TwoOrders ==
    /\ Len(histA) = 2
    /\ histB = <<histA[2], histA[1]>>
    /\ histA[1] # histA[2]
    /\ KeyOf(histA[1]) = KeyOf(histA[2])
    /\ diffRet = NoneI64

\* the leaves of a trie: the nodes without children
Leaves(trie) == {path \in DOMAIN trie : child_keys(trie, path) = <<>>}

\* C17: key_to_timestamp(key) right-pads key with '0' to 16 base-3 digits, reads
\* it as the integer m and returns m * 60_000, so the value diff returns is in
\* milliseconds since the epoch.
C17_KeyToTimestampMillis ==
    (DiffCalled /\ diffRet.kind = "Some") =>
        LET key == diff_recursive(trieA, trieB, EmptyPath).path
            m == from_str_radix_3(pad_right_16(key))
        IN  diffRet.val = I64Mul(I64Mul(I64(m), 60), 1000)

\* C18: insert files a timestamp under a key of exactly 16 base-3 digits, so
\* after any sequence of inserts every leaf of the trie is at depth 16.
C18_LeavesAtDepth16 ==
    /\ histA # <<>> => \A path \in Leaves(trieA) : Len(path) = 16
    /\ histB # <<>> => \A path \in Leaves(trieB) : Len(path) = 16

\* C21: diff is symmetric: for any two tries A and B reachable by inserts,
\* A.diff(B) equals B.diff(A).
C21_DiffSymmetric ==
    (diffRet # NotCalled /\ diffRetBA # NotCalled) => diffRet = diffRetBA

-----------------------------------------------------------------------------
(* The claims about prune and repeated inserts, checked under SpecPrune.   *)

\* the hash of the node at path, 0 where the trie has no such node
HashAt(trie, path) == IF path \in DOMAIN trie THEN trie[path] ELSE {}

\* C14: for every trie T reachable by insert and prune calls, T.diff(T)
\* returns None.
C14_DiffSelfIsNone ==
    /\ diff(trieA, trieA) = NoneI64
    /\ (DiffCalled /\ diffWith = "self") => diffRet = NoneI64

\* diff of a trie with itself, the trie built by an insert and a prune, with a
\* root hash other than 0 and a node below the root
W_C14_AfterInsertAndPrune ==
    /\ DiffCalled /\ diffWith = "self"
    /\ \E i, j \in DOMAIN opsA : opsA[i].op = "insert" /\ opsA[j].op = "prune"
    /\ trieA[EmptyPath] # {}
    /\ DOMAIN trieA # {EmptyPath}
    /\ diffRet = NoneI64

\* the last two calls inserted a timestamp and pruned its millis
InsertThenPrune ==
    /\ Len(opsA) >= 2
    /\ opsA[Len(opsA) - 1].op = "insert"
    /\ opsA[Len(opsA)] = PruneOp(opsA[Len(opsA) - 1].timestamp.millis)

\* C15: inserting a timestamp into any trie and then pruning the same
\* timestamp restores the hash of every node to its value before the insert.
C15_InsertPruneRestores ==
    InsertThenPrune =>
        LET before == snapsA[Len(opsA) - 1]
        IN  \A path \in DOMAIN before \cup DOMAIN trieA :
                HashAt(trieA, path) = HashAt(before, path)

\* the key path of a pruned value t is absent from the trie, or only partly
\* present: neither the path of the key insert files minute t / 60_000 under
\* nor the path of the key prune walks is a node of the trie
KeyPathAbsent(trie, t) ==
    /\ millis_to_base3(t \div 60000) \notin DOMAIN trie
    /\ format_b(t \div 60000) \notin DOMAIN trie

\* C16: prune of a value whose key path is absent or only partly present
\* leaves the trie unchanged: no hash changes and no node is removed.
C16_PruneAbsentNoOp ==
    (/\ Len(opsA) >= 1
     /\ opsA[Len(opsA)].op = "prune"
     /\ KeyPathAbsent(snapsA[Len(opsA)], opsA[Len(opsA)].timestamp)) =>
        trieA = snapsA[Len(opsA)]

\* the last two calls inserted the same timestamp
InsertedTwice ==
    /\ Len(opsA) >= 2
    /\ opsA[Len(opsA)].op = "insert"
    /\ opsA[Len(opsA) - 1] = opsA[Len(opsA)]

\* C20: inserting the same timestamp twice into any trie leaves the hash of
\* every node that existed before unchanged, and the result diffs to None
\* against the trie before the two inserts.
C20_InsertTwiceCancels ==
    InsertedTwice =>
        LET before == snapsA[Len(opsA) - 1]
        IN  /\ \A path \in DOMAIN before :
                    path \in DOMAIN trieA /\ trieA[path] = before[path]
            /\ diff(trieA, before) = NoneI64
            /\ (DiffCalled /\ diffWith = "before") => diffRet = NoneI64

\* a timestamp inserted twice into a trie that had a node on its key path with
\* a hash other than 0, and the result diffed against the trie before
W_C20_TwiceIntoNonEmpty ==
    /\ InsertedTwice
    /\ Len(opsA) = 3
    /\ \E path \in DOMAIN snapsA[2] \ {EmptyPath} :
           /\ IsPrefix(path, KeyOf(opsA[3].timestamp))
           /\ snapsA[2][path] # {}
    /\ DiffCalled /\ diffWith = "before"
    /\ diffRet = NoneI64

====
